---- MODULE Spec2Model ----
(***************************************************************************)
(* Dependency analysis of loopy/kernel/dependency.py:                      *)
(*   AccessMapFinder, add_lexicographic_happens_after and                  *)
(*   compute_data_dependencies, over kernels with small iteration domains. *)
(* Integer relations (isl.Map) are finite sets of pairs <<x, y>> of        *)
(* integer tuples; integer sets (isl.Set) are finite sets of tuples.       *)
(***************************************************************************)
EXTENDS Integers, Sequences, FiniteSets, TLC

VARIABLES
    knl,                \* the input kernel: its ordered instruction list
    pc,                 \* position of the pipeline
    stages,             \* the functions the caller runs: "seed", "deps" or both, in this order
    iafter,             \* add_lexicographic_happens_after: loop index
    seeded,             \* happens_after of each instruction after the seeder
    access_maps,        \* AccessMapFinder.access_maps
    winsn,              \* walker: index of the instruction being walked
    wocc,               \* walker: number of nodes of that instruction already visited
    ibefore,            \* compute_data_dependencies: index of before_insn
    new_happens_after,  \* compute_data_dependencies: map under construction
    todo_vars,          \* variables of accesses[before_insn.id] not yet visited
    variable,           \* the loop variable `variable`
    todo_after,         \* members of accessed_by not yet visited
    after_insn,         \* the loop variable `after_insn`
    before_map,         \* local before_map
    after_map,          \* local after_map
    new_insns,          \* happens_after of the instructions of the result
    err                 \* the exception that ended the run, or "none"

vars == <<knl, pc, stages, iafter, seeded, access_maps, winsn, wocc, ibefore,
          new_happens_after, todo_vars, variable, todo_after, after_insn,
          before_map, after_map, new_insns, err>>

\* ------------------------------------------------------------------ bounds
DomSize == 3        \* every loop runs over 0 .. DomSize-1
MaxInsns == 2       \* a kernel has 1 .. MaxInsns instructions
MaxSeedInsns == 3   \* the same, for the runs of the seeder alone

\* ------------------------------------------------------- kernel (the input)
\* Order of the loop indices in the kernel's domain (outer to inner).
InameOrder == <<"i", "j">>

AllIds == <<"S1", "S2", "S3", "S4", "S5">>

NoVar == "None"

\* Expression nodes.  index is the index_tuple of a Subscript: a sequence of
\* affine terms iname + off.
Node(kind, name, index, kids) ==
    [kind |-> kind, name |-> name, index |-> index, kids |-> kids]
Ix(iname, off) == [iname |-> iname, off |-> off]
Sub1(name, iname, off) == Node("Subscript", name, <<Ix(iname, off)>>, <<>>)
Sub2(name, o1, o2) == Node("Subscript", name, <<Ix("i", o1), Ix("j", o2)>>, <<>>)
Var(name) == Node("Variable", name, <<>>, <<>>)
Const == Node("Constant", "1", <<>>, <<>>)
Sum(kids) == Node("Sum", "+", <<>>, kids)
TypeCast(child) == Node("TypeCast", "cast", <<>>, <<child>>)
SubArrayRef(child) == Node("SubArrayRef", "ref", <<>>, <<child>>)

Insn(within, assignee, expression) ==
    [within_inames |-> within, assignee |-> assignee, expression |-> expression]

\* The statements kernels are built from.
Statements ==
    { Insn({"i"}, Sub1("a", "i", 0), Var("i")),                           \* a[i] = i
      Insn({"i"}, Sub1("b", "i", 0), Sum(<<Sub1("a", "i", 0), Const>>)),  \* b[i] = a[i] + 1
      Insn({"i"}, Sub1("a", "i", 0),
           Sum(<<Sub1("a", "i", 1), Sub1("a", "i", -1)>>)),               \* a[i] = a[i+1] + a[i-1]
      Insn({"i"}, Sub1("a", "i", 0),
           Sum(<<Sub1("a", "i", -1), Sub1("a", "i", 1)>>)),               \* a[i] = a[i-1] + a[i+1]
      Insn({"i"}, Sub1("a", "i", 1), Sub1("b", "i", 1)),                  \* a[i+1] = b[i+1]
      Insn({"i"}, Sub1("x", "i", 0), TypeCast(Sub1("a", "i", 1))),        \* x[i] = cast(a[i+1])
      Insn({"i"}, Var("t"), Sub1("a", "i", 0)),                           \* t = a[i]
      Insn({"j"}, Sub1("b", "j", 0), Sub1("a", "j", 1)),                  \* b[j] = a[j+1]
      Insn({"i", "j"}, Sub2("c", 0, 0),
           Sum(<<Sub2("c", 1, 1), Sub1("a", "i", 0)>>)),                  \* c[i,j] = c[i+1,j+1] + a[i]
      Insn({"i"}, Sub1("x", "i", 0), SubArrayRef(Sub1("a", "i", 0)))      \* x[i] = f([i]: a[i])
    }

Kernels ==
    UNION { [1..n -> Statements] : n \in 1..MaxInsns }
SeedKernels ==
    UNION { [1..n -> Statements] : n \in 1..MaxSeedInsns }

Id(k) == AllIds[k]
IndexOf(id) == CHOOSE k \in 1..Len(AllIds) : AllIds[k] = id

\* ---------------------------------------------------- integer tuples, sets
RECURSIVE Tuples(_)
\* All integer tuples of length n over 0 .. DomSize-1.
Tuples(n) ==
    IF n = 0 THEN {<<>>}
    ELSE { Append(t, v) : t \in Tuples(n - 1), v \in 0..(DomSize - 1) }

\* The names of the dimensions of the domain of a set of inames, outer first.
DimNames(within) == SelectSeq(InameOrder, LAMBDA n : n \in within)

\* knl.get_inames_domain(within_inames)
get_inames_domain(within) == Tuples(Len(DimNames(within)))

DimPos(names, n) == CHOOSE k \in 1..Len(names) : names[k] = n

\* ------------------------------------------------------------ isl.Map/Set
\* An isl.Map is its space (the numbers of input and output dimensions) and its
\* pairs; an isl.Set is a set of tuples.
Map(n_in, n_out, pairs) == [n_in |-> n_in, n_out |-> n_out, pairs |-> pairs]

\* Optional values: None, or Some(v).
None == [some |-> FALSE, val |-> Map(0, 0, {})]
Some(m) == [some |-> TRUE, val |-> m]

\* isl.Map.from_domain_and_range
from_domain_and_range(n_in, domain, n_out, range) ==
    Map(n_in, n_out, domain \X range)

\* isl.Map.reverse
reverse(m) == Map(m.n_out, m.n_in, { <<p[2], p[1]>> : p \in m.pairs })

\* isl.Map.apply_range: m2 after m1
apply_range(m1, m2) ==
    Map(m1.n_in, m2.n_out,
        { <<r[1][1], r[2][2]>> :
            r \in { q \in m1.pairs \X m2.pairs : q[1][2] = q[2][1] } })

\* isl.Map.identity(space), on the points a relation of that space can hold
identity(n, points) == Map(n, n, { <<x, x>> : x \in points })

\* isl.Map.__or__, __and__, __sub__
union(m1, m2) == Map(m1.n_in, m1.n_out, m1.pairs \cup m2.pairs)
intersect(m1, m2) == Map(m1.n_in, m1.n_out, m1.pairs \cap m2.pairs)
subtract(m1, m2) == Map(m1.n_in, m1.n_out, m1.pairs \ m2.pairs)

\* isl.Map.is_empty
is_empty(m) == m.pairs = {}

\* y <lex z for tuples of one space
LexLt(y, z) ==
    \E k \in 1..Len(y) :
        /\ \A m \in 1..(k - 1) : y[m] = z[m]
        /\ y[k] < z[k]

\* isl.Map.lex_lt_map: for m1: A -> B and m2: C -> B,
\* { a -> c : some b1 in m1(a), b2 in m2(c) have b1 <lex b2 }
lex_lt_map(m1, m2) ==
    Map(m1.n_in, m2.n_in,
        { <<r[1][1], r[2][1]>> :
            r \in { q \in m1.pairs \X m2.pairs : LexLt(q[1][2], q[2][2]) } })

\* loopy.symbolic.get_access_map(domain, subscript, assumptions):
\* { [inames] -> [index tuple] } over the domain.
get_access_map(domain, names, subscript) ==
    Map(Len(names), Len(subscript),
        { <<x, [d \in 1..Len(subscript) |->
                  x[DimPos(names, subscript[d].iname)] + subscript[d].off]>> :
          x \in domain })

\* ------------------------------------------------------------ dictionaries
EmptyDict == <<>>
DictSet(h, k, v) == [x \in (DOMAIN h) \cup {k} |-> IF x = k THEN v ELSE h[x]]

\* HappensAfter(variable_name, instances_rel)
HappensAfter(variable_name, instances_rel) ==
    [variable_name |-> variable_name, instances_rel |-> instances_rel]

\* --------------------------------------------------------- AccessMapFinder
RECURSIVE Walk(_)
RECURSIVE WalkAll(_)
\* The nodes at which the walk of an expression records or raises, in the
\* order WalkMapper reaches them: map_subscript records a Subscript after
\* its children, map_type_cast walks the operand, map_sub_array_ref raises.
Walk(expr) ==
    CASE expr.kind = "Subscript" -> <<expr>>
      [] expr.kind = "SubArrayRef" -> <<expr>>
      [] expr.kind = "TypeCast" -> Walk(expr.kids[1])
      [] expr.kind = "Sum" -> WalkAll(expr.kids)
      [] OTHER -> <<>>
WalkAll(kids) ==
    IF kids = <<>> THEN <<>> ELSE Walk(Head(kids)) \o WalkAll(Tail(kids))

\* amf(insn.assignee, insn); amf(insn.expression, insn)
Occs(insn) == Walk(insn.assignee) \o Walk(insn.expression)

\* AccessMapFinder.__init__: no pair holds a map
AllVars == {"a", "b", "c", "x", "t"}
InitAccessMaps == [k \in { AllIds[n] : n \in 1..Len(AllIds) } \X AllVars |-> None]

\* AccessMapFinder.map_subscript: replaces the stored map by the new one
map_subscript_replace(maps, insn_id, insn, expr) ==
    LET domain == get_inames_domain(insn.within_inames)
        access_map == get_access_map(domain, DimNames(insn.within_inames), expr.index)
    IN  [maps EXCEPT ![<<insn_id, expr.name>>] = Some(access_map)]

\* AccessMapFinder.map_subscript
map_subscript(maps, insn_id, insn, expr) ==
    LET domain == get_inames_domain(insn.within_inames)
        arg_name == expr.name
        subscript == expr.index
        access_map == get_access_map(domain, DimNames(insn.within_inames), subscript)
    IN  IF maps[<<insn_id, arg_name>>].some
        THEN [maps EXCEPT ![<<insn_id, arg_name>>] = Some(union(@.val, access_map))]
        ELSE [maps EXCEPT ![<<insn_id, arg_name>>] = Some(access_map)]

\* AccessMapFinder.get_map: access_maps is a defaultdict of defaultdicts whose
\* default is None, so the lookup of a pair never recorded raises no KeyError
\* and returns None.
get_map(maps, insn_id, variable_name) ==
    [raised |-> FALSE, value |-> maps[<<insn_id, variable_name>>]]

\* ------------------------------------------ add_lexicographic_happens_after
Primed(names) == [k \in 1..Len(names) |-> names[k] \o "'"]

\* The instances relation of the edge from insn_after to insn_before.
\* strict: the comparison of the innermost shared iname (lt_set).
seed_relation(insn_before, insn_after, strict) ==
    LET shared_inames == insn_after.within_inames \cap insn_before.within_inames
        names_before == DimNames(insn_before.within_inames)
        names_after == DimNames(insn_after.within_inames)
        domain_before == get_inames_domain(insn_before.within_inames)
        domain_after == get_inames_domain(insn_after.within_inames)
        happens_before == from_domain_and_range(
            Len(names_before), domain_before, Len(names_after), domain_after)
        n_inames_before == happens_before.n_in
        \* move_dims(out, 0, in, 0, n).range(): the input dimensions first,
        \* then the output dimensions under their primed names
        set_names == names_before \o Primed(names_after)
        happens_before_set == { p[1] \o p[2] : p \in happens_before.pairs }
        shared_inames_order == SelectSeq(names_after, LAMBDA n : n \in shared_inames)
        affs == [n \in { set_names[k] : k \in 1..Len(set_names) } |->
                    DimPos(set_names, n)]
        innermost_set(iinnermost) ==
            { t \in Tuples(Len(set_names)) :
                /\ IF strict
                   THEN t[affs[shared_inames_order[iinnermost]]]
                          < t[affs[shared_inames_order[iinnermost] \o "'"]]
                   ELSE t[affs[shared_inames_order[iinnermost]]]
                          <= t[affs[shared_inames_order[iinnermost] \o "'"]]
                /\ \A o \in 1..(iinnermost - 1) :
                      t[affs[shared_inames_order[o]]]
                        = t[affs[shared_inames_order[o] \o "'"]] }
        lex_set == UNION { innermost_set(k) : k \in 1..Len(shared_inames_order) }
        lex_map == Map(n_inames_before, Len(set_names) - n_inames_before,
                       { <<SubSeq(t, 1, n_inames_before),
                           SubSeq(t, n_inames_before + 1, Len(t))>> : t \in lex_set })
    IN  intersect(happens_before, lex_map)

\* The seeder with le_set in place of lt_set.
lexicographic_le(insn_before, insn_after) ==
    seed_relation(insn_before, insn_after, FALSE)

\* happens_before of lines 205-262
lexicographic_happens_before(insn_before, insn_after) ==
    seed_relation(insn_before, insn_after, TRUE)

\* The orders of the shared inames in the two domains (the assertion of line 238)
SharedOrdersAgree(insn_before, insn_after) ==
    LET shared_inames == insn_after.within_inames \cap insn_before.within_inames
    IN  SelectSeq(DimNames(insn_after.within_inames), LAMBDA n : n \in shared_inames)
          = SelectSeq(DimNames(insn_before.within_inames), LAMBDA n : n \in shared_inames)

\* ------------------------------------------------ compute_data_dependencies
RECURSIVE DepNames(_)
RECURSIVE DepNamesAll(_)
\* The names an expression depends on: variables, arrays and index inames.
DepNames(expr) ==
    CASE expr.kind = "Subscript" ->
            {expr.name} \cup { expr.index[d].iname : d \in 1..Len(expr.index) }
      [] expr.kind = "Variable" -> {expr.name}
      [] expr.kind = "Constant" -> {}
      [] OTHER -> DepNamesAll(expr.kids)
DepNamesAll(kids) ==
    IF kids = <<>> THEN {} ELSE DepNames(Head(kids)) \cup DepNamesAll(Tail(kids))

\* insn.read_dependency_names(): the names of the expression and of the
\* indices of the assignee
read_dependency_names(insn) ==
    DepNames(insn.expression) \cup (DepNames(insn.assignee) \ {insn.assignee.name})

\* insn.write_dependency_names(): the assignee and the names of its indices
write_dependency_names(insn) == DepNames(insn.assignee)

AllInames == { InameOrder[k] : k \in 1..Len(InameOrder) }

\* knl.reader_map().get(variable, set()), knl.writer_map().get(variable, set())
reader_map(insns, v) ==
    { Id(k) : k \in { n \in 1..Len(insns) :
                        v \in read_dependency_names(insns[n]) \ AllInames } }
writer_map(insns, v) ==
    { Id(k) : k \in { n \in 1..Len(insns) : v = insns[n].assignee.name } }

\* accesses[insn.id]
accesses(insn) ==
    (read_dependency_names(insn) \cup write_dependency_names(insn))
        \ insn.within_inames

\* accessed_by
accessed_by(insns, v) == reader_map(insns, v) \cup writer_map(insns, v)

\* get_unordered_deps without the subtraction of the identity
get_unordered_deps_keep_identity(frm, to) == apply_range(frm, reverse(to))

\* get_unordered_deps: isl.Map.identity needs a space whose two tuples have
\* the same number of dimensions, the callers check SpaceHasIdentity first
get_unordered_deps(frm, to) ==
    LET dependency == apply_range(frm, reverse(to))
    IN  subtract(dependency,
                 identity(dependency.n_in, { p[1] : p \in dependency.pairs }))

SpaceHasIdentity(frm, to) == frm.n_in = to.n_in

\* deps of lines 163-177, for maps whose dependency space has an identity.
\* lex_map relates the input tuple of unordered_deps to itself; isl compares
\* spaces by the numbers of dimensions of their tuples and not by the names of
\* the dimensions, so the branch of lines 169-175 needs n_in != n_out, for
\* which line 121 has raised already.
deps_of(before_map_, after_map_) ==
    LET unordered_deps == get_unordered_deps(before_map_, after_map_)
        lex_map == lex_lt_map(unordered_deps, unordered_deps)
    IN  intersect(unordered_deps, lex_map)

\* ------------------------------------------------------------------- state
Start(kernels, choices) ==
    /\ knl \in kernels
    /\ stages \in choices
    /\ pc = IF "seed" \in stages THEN "seed" ELSE "walk"
    /\ iafter = 1
    /\ seeded = IF "seed" \in stages THEN <<>> ELSE [k \in 1..Len(knl) |-> EmptyDict]
    /\ access_maps = InitAccessMaps
    /\ winsn = 1
    /\ wocc = 0
    /\ ibefore = 1
    /\ new_happens_after = EmptyDict
    /\ todo_vars = {}
    /\ variable = NoVar
    /\ todo_after = {}
    /\ after_insn = NoVar
    /\ before_map = None
    /\ after_map = None
    /\ new_insns = <<>>
    /\ err = "none"

Init == Start(Kernels, {{"seed"}, {"deps"}, {"seed", "deps"}})

\* The seeder alone, on kernels of up to MaxSeedInsns instructions
InitSeed == Start(SeedKernels, {{"seed"}})

Raise(e) == pc' = "error" /\ err' = e

\* add_lexicographic_happens_after: one iteration of the loop of line 198
SeedInsn ==
    /\ pc = "seed"
    /\ iafter <= Len(knl)
    /\ IF iafter = 1
       THEN /\ seeded' = Append(seeded, EmptyDict)
            /\ iafter' = iafter + 1
            /\ UNCHANGED <<pc, err>>
       ELSE LET insn_before == knl[iafter - 1]
                insn_after == knl[iafter]
            IN  IF ~SharedOrdersAgree(insn_before, insn_after)
                THEN Raise("AssertionError") /\ UNCHANGED <<seeded, iafter>>
                ELSE /\ seeded' = Append(seeded,
                            DictSet(EmptyDict, Id(iafter - 1),
                                HappensAfter(NoVar,
                                    lexicographic_happens_before(insn_before, insn_after))))
                     /\ iafter' = iafter + 1
                     /\ UNCHANGED <<pc, err>>
    /\ UNCHANGED <<knl, stages, access_maps, winsn, wocc, ibefore,
                   new_happens_after, todo_vars, variable, todo_after, after_insn,
                   before_map, after_map, new_insns>>

\* line 272: add_lexicographic_happens_after returns; compute_data_dependencies
\* is called on its result when the caller runs both
SeedReturn ==
    /\ pc = "seed"
    /\ iafter > Len(knl)
    /\ pc' = IF "deps" \in stages THEN "walk" ELSE "done"
    /\ UNCHANGED <<knl, stages, iafter, seeded, access_maps, winsn, wocc, ibefore,
                   new_happens_after, todo_vars, variable, todo_after, after_insn,
                   before_map, after_map, new_insns, err>>

\* lines 143-145: the walker reaches the next Subscript or SubArrayRef node
WalkNode ==
    /\ pc = "walk"
    /\ winsn <= Len(knl)
    /\ wocc < Len(Occs(knl[winsn]))
    /\ LET expr == Occs(knl[winsn])[wocc + 1]
       IN  IF expr.kind = "SubArrayRef"
           THEN Raise("NotImplementedError") /\ UNCHANGED <<access_maps, wocc>>
           ELSE /\ access_maps' = map_subscript(access_maps, Id(winsn), knl[winsn], expr)
                /\ wocc' = wocc + 1
                /\ UNCHANGED <<pc, err>>
    /\ UNCHANGED <<knl, stages, iafter, seeded, winsn, ibefore,
                   new_happens_after, todo_vars, variable, todo_after, after_insn,
                   before_map, after_map, new_insns>>

\* lines 143-145: the walk of an instruction is over
WalkNextInsn ==
    /\ pc = "walk"
    /\ winsn <= Len(knl)
    /\ wocc = Len(Occs(knl[winsn]))
    /\ winsn' = winsn + 1
    /\ wocc' = 0
    /\ pc' = IF winsn = Len(knl) THEN "insn" ELSE "walk"
    /\ UNCHANGED <<knl, stages, iafter, seeded, access_maps, ibefore,
                   new_happens_after, todo_vars, variable, todo_after, after_insn,
                   before_map, after_map, new_insns, err>>

\* lines 148-153: the next before_insn
BeginInsn ==
    /\ pc = "insn"
    /\ ibefore <= Len(knl)
    /\ new_happens_after' = EmptyDict
    /\ todo_vars' = accesses(knl[ibefore])
    /\ pc' = "var"
    /\ UNCHANGED <<knl, stages, iafter, seeded, access_maps, winsn, wocc, ibefore,
                   variable, todo_after, after_insn, before_map, after_map,
                   new_insns, err>>

\* lines 153-156: the next variable, in the order the set yields them
NextVariable ==
    /\ pc = "var"
    /\ \E v \in todo_vars :
        /\ variable' = v
        /\ todo_vars' = todo_vars \ {v}
        /\ todo_after' = accessed_by(knl, v)
    /\ pc' = "after"
    /\ UNCHANGED <<knl, stages, iafter, seeded, access_maps, winsn, wocc, ibefore,
                   new_happens_after, after_insn, before_map, after_map,
                   new_insns, err>>

\* line 184
AppendInsn ==
    /\ pc = "var"
    /\ todo_vars = {}
    /\ new_insns' = Append(new_insns, new_happens_after)
    /\ ibefore' = ibefore + 1
    /\ pc' = "insn"
    /\ UNCHANGED <<knl, stages, iafter, seeded, access_maps, winsn, wocc,
                   new_happens_after, todo_vars, variable, todo_after, after_insn,
                   before_map, after_map, err>>

\* lines 159-161: the next after_insn and the two lookups
Lookup ==
    /\ pc = "after"
    /\ \E t \in todo_after :
        LET b == get_map(access_maps, Id(ibefore), variable)
            a == get_map(access_maps, t, variable)
        IN  /\ after_insn' = t
            /\ todo_after' = todo_after \ {t}
            /\ IF b.raised \/ a.raised
               THEN Raise("RuntimeError") /\ UNCHANGED <<before_map, after_map>>
               ELSE /\ before_map' = b.value
                    /\ after_map' = a.value
                    /\ pc' = "deps"
                    /\ UNCHANGED err
    /\ UNCHANGED <<knl, stages, iafter, seeded, access_maps, winsn, wocc, ibefore,
                   new_happens_after, todo_vars, variable, new_insns>>

\* the loop of line 159 is over
EndVariable ==
    /\ pc = "after"
    /\ todo_after = {}
    /\ pc' = "var"
    /\ UNCHANGED <<knl, stages, iafter, seeded, access_maps, winsn, wocc, ibefore,
                   new_happens_after, todo_vars, variable, todo_after, after_insn,
                   before_map, after_map, new_insns, err>>

\* lines 163-182
ComputeDeps ==
    /\ pc = "deps"
    /\ IF ~before_map.some \/ ~after_map.some
       THEN \* None has no apply_range, no reverse
            Raise("AttributeError") /\ UNCHANGED new_happens_after
       ELSE IF ~SpaceHasIdentity(before_map.val, after_map.val)
       THEN \* line 121: isl.Map.identity on a space with n_in != n_out
            Raise("IslError") /\ UNCHANGED new_happens_after
       ELSE LET deps == deps_of(before_map.val, after_map.val)
            IN  /\ new_happens_after' =
                        IF ~is_empty(deps)
                        THEN DictSet(new_happens_after, after_insn,
                                     HappensAfter(variable, deps))
                        ELSE new_happens_after
                /\ pc' = "after"
                /\ UNCHANGED err
    /\ UNCHANGED <<knl, stages, iafter, seeded, access_maps, winsn, wocc, ibefore,
                   todo_vars, variable, todo_after, after_insn, before_map,
                   after_map, new_insns>>

\* line 186
Return ==
    /\ pc = "insn"
    /\ ibefore > Len(knl)
    /\ pc' = "done"
    /\ UNCHANGED <<knl, stages, iafter, seeded, access_maps, winsn, wocc, ibefore,
                   new_happens_after, todo_vars, variable, todo_after, after_insn,
                   before_map, after_map, new_insns, err>>

Next ==
    \/ SeedInsn
    \/ SeedReturn
    \/ WalkNode
    \/ WalkNextInsn
    \/ BeginInsn
    \/ NextVariable
    \/ AppendInsn
    \/ Lookup
    \/ EndVariable
    \/ ComputeDeps
    \/ Return

Spec == Init /\ [][Next]_vars

NextSeed ==
    \/ SeedInsn
    \/ SeedReturn

SpecSeed == InitSeed /\ [][NextSeed]_vars

\* ------------------------------------------------------------- properties
\* The template statements the claims name.
StmtWriteA == Insn({"i"}, Sub1("a", "i", 0), Var("i"))
StmtReadA == Insn({"i"}, Sub1("b", "i", 0), Sum(<<Sub1("a", "i", 0), Const>>))

Domain(insn) == get_inames_domain(insn.within_inames)

\* Every edge the run holds: <<holder index, key, edge>>.
SeedEdges == UNION { { <<k, t, seeded[k][t]>> : t \in DOMAIN seeded[k] } :
                        k \in 1..Len(seeded) }
DepEdges ==
    UNION { { <<k, t, new_insns[k][t]>> : t \in DOMAIN new_insns[k] } :
              k \in 1..Len(new_insns) }
    \cup (IF pc \in {"var", "after", "deps"}
          THEN { <<ibefore, t, new_happens_after[t]>> : t \in DOMAIN new_happens_after }
          ELSE {})

\* C1: no instances relation of an edge produced by the seeder or by
\* compute_data_dependencies holds a pair whose two iteration vectors are equal.
C1_NoSelfOrdering ==
    \A e \in SeedEdges \cup DepEdges :
        \A p \in e[3].instances_rel.pairs : p[1] # p[2]

\* C1 witness: both stages have run, the seeder left a non-empty relation and
\* compute_data_dependencies recorded an edge for two access relations whose
\* composition held an identity pair.
C1_Witness ==
    /\ pc = "done"
    /\ stages = {"seed", "deps"}
    /\ \E e \in SeedEdges : e[3].instances_rel.pairs # {}
    /\ \E k \in 1..Len(new_insns) : \E t \in DOMAIN new_insns[k] :
          LET b == access_maps[<<Id(k), new_insns[k][t].variable_name>>].val
              a == access_maps[<<t, new_insns[k][t].variable_name>>].val
          IN  \E q \in apply_range(b, reverse(a)).pairs : q[1] = q[2]

\* The lexicographic order of the spec on the shared indices, outer first:
\* b is an iteration vector of the predecessor, a one of the successor.
SharedLexLt(insn_before, insn_after, b, a) ==
    LET nb == DimNames(insn_before.within_inames)
        na == DimNames(insn_after.within_inames)
        shared == SelectSeq(InameOrder,
                    LAMBDA n : n \in insn_before.within_inames
                                 /\ n \in insn_after.within_inames)
    IN  \E k \in 1..Len(shared) :
            /\ \A m \in 1..(k - 1) :
                  b[DimPos(nb, shared[m])] = a[DimPos(na, shared[m])]
            /\ b[DimPos(nb, shared[k])] < a[DimPos(na, shared[k])]

\* C2: the seeder gives every statement but the first exactly one entry, keyed
\* by its immediate predecessor, with variable None, whose relation is the set
\* of pairs of the cross product of the two domains that are ordered on the
\* shared indices; for A in loop i and B in loops i, j it is A.i < B.i for all j.
C2_SeedIsLexicographic ==
    \A k \in 2..Len(seeded) :
        /\ DOMAIN seeded[k] = {Id(k - 1)}
        /\ seeded[k][Id(k - 1)].variable_name = NoVar
        /\ seeded[k][Id(k - 1)].instances_rel.pairs =
              { p \in Domain(knl[k - 1]) \X Domain(knl[k]) :
                    SharedLexLt(knl[k - 1], knl[k], p[1], p[2]) }
        /\ (knl[k - 1].within_inames = {"i"} /\ knl[k].within_inames = {"i", "j"})
              => seeded[k][Id(k - 1)].instances_rel.pairs =
                    { p \in Tuples(1) \X Tuples(2) : p[1][1] < p[2][1] }

\* C2 witness: three statements are seeded, the third nested in i, j after a
\* second nested in i only, and its relation is not empty.
C2_Witness ==
    /\ pc = "done"
    /\ Len(seeded) = 3
    /\ knl[2].within_inames = {"i"}
    /\ knl[3].within_inames = {"i", "j"}
    /\ DOMAIN seeded[3] = {"S2"}
    /\ seeded[3]["S2"].instances_rel.pairs # {}

\* The subscript nodes of variable v among the first n nodes of the walk.
SubscriptsOf(insn, v, n) ==
    { m \in 1..n : Occs(insn)[m].kind = "Subscript" /\ Occs(insn)[m].name = v }

\* The union of the access relations of a set of nodes of the walk.
UnionOfAccesses(insn, ms) ==
    UNION { get_access_map(Domain(insn), DimNames(insn.within_inames),
                           Occs(insn)[m].index).pairs : m \in ms }

\* The number of nodes of instruction k the walker has visited.
Visited(k) ==
    IF k < winsn THEN Len(Occs(knl[k])) ELSE IF k = winsn THEN wocc ELSE 0

\* C4: the relation stored for (statement, variable) is the union of the access
\* relations of all the subscripts of the variable the walker has visited in
\* the statement, and no relation is stored when there is none.
C4_UnionOfAccesses ==
    \A k \in 1..Len(knl) : \A v \in AllVars :
        LET ms == SubscriptsOf(knl[k], v, Visited(k))
            stored == access_maps[<<Id(k), v>>]
        IN  IF ms = {}
            THEN ~stored.some
            ELSE stored.some /\ stored.val.pairs = UnionOfAccesses(knl[k], ms)

\* C4 witness: a statement with three accesses to one variable, of three
\* different access relations, has been walked to its end.
C4_Witness ==
    \E k \in 1..Len(knl) :
        /\ k < winsn
        /\ Cardinality(SubscriptsOf(knl[k], "a", Len(Occs(knl[k])))) = 3
        /\ Cardinality({ get_access_map(Domain(knl[k]), DimNames(knl[k].within_inames),
                                        Occs(knl[k])[m].index) :
                           m \in SubscriptsOf(knl[k], "a", Len(Occs(knl[k]))) }) = 3

\* C3: for S1: a[i] = i and S2: b[i] = a[i] + 1 in one loop i, the seeder
\* followed by compute_data_dependencies leaves S2 with an edge to S1 for
\* variable a whose relation is the same-iteration relation.
C3_SameIterationEdge ==
    (/\ pc = "done"
     /\ stages = {"seed", "deps"}
     /\ knl = <<StmtWriteA, StmtReadA>>)
    => /\ "S1" \in DOMAIN new_insns[2]
       /\ new_insns[2]["S1"].variable_name = "a"
       /\ new_insns[2]["S1"].instances_rel.pairs =
             { <<x, x>> : x \in Domain(StmtReadA) }

\* C5: after the seeder and the relaxation, every edge of the result between
\* two different statements lies between a pair the seed has an edge for, and
\* its relation is a subset of the seed relation of that pair.
C5_RelaxationOnlyNarrows ==
    (pc = "done" /\ stages = {"seed", "deps"})
    => \A k \in 1..Len(new_insns) : \A t \in (DOMAIN new_insns[k]) \ {Id(k)} :
          /\ t \in DOMAIN seeded[k]
          /\ new_insns[k][t].instances_rel.pairs
                \subseteq seeded[k][t].instances_rel.pairs

\* C6: the relation of an edge stored on statement S under key T has its
\* input side in the iteration domain of S and its output side in that of T.
C6_HolderToKey ==
    \A e \in SeedEdges \cup DepEdges :
        \A p \in e[3].instances_rel.pairs :
            /\ p[1] \in Domain(knl[e[1]])
            /\ p[2] \in Domain(knl[IndexOf(e[2])])

\* C7: get_map for a pair no map_subscript call recorded raises and returns
\* nothing: when the two lookups of lines 160-161 have returned, both pairs
\* have a recorded relation.
C7_MissingMapRaises ==
    pc = "deps"
    => /\ access_maps[<<Id(ibefore), variable>>].some
       /\ access_maps[<<after_insn, variable>>].some

\* C8: in the result, when S has no edge to another statement T that carries
\* V, the dependence of S and T on V is empty.
C8_AbsentEdgeMeansNoDependence ==
    pc = "done" /\ "deps" \in stages
    => \A k \in 1..Len(knl) : \A v \in accesses(knl[k]) :
          \A t \in accessed_by(knl, v) \ {Id(k)} :
              ~(t \in DOMAIN new_insns[k] /\ new_insns[k][t].variable_name = v)
              => is_empty(deps_of(access_maps[<<Id(k), v>>].val,
                                  access_maps[<<t, v>>].val))

\* C9: at least one of the two different statements of an edge
\* compute_data_dependencies records for variable V writes V.
C9_EdgeHasAWriter ==
    \A e \in { d \in DepEdges : d[2] # Id(d[1]) } :
        \/ knl[e[1]].assignee.name = e[3].variable_name
        \/ knl[IndexOf(e[2])].assignee.name = e[3].variable_name

\* C10: the happens_after map compute_data_dependencies builds for S has no
\* entry keyed by the id of S.
C10_NoEdgeToItself ==
    \A e \in DepEdges : e[2] # Id(e[1])

====
